---- MODULE Spec2Model ----
(***************************************************************************)
(* MADS (Multi-Agent Documentation System).                                *)
(*                                                                         *)
(* Two state machines over one set of variables:                           *)
(*   Spec      the entry points (main.py, zyklus1.py, zyklus2.py) and the  *)
(*             sequential crew run they kick off;                          *)
(*   SpecTools the two tools of main.py (FileWriteTool, CodeAnalyzerTool)  *)
(*             acting on a small file system.                              *)
(***************************************************************************)
EXTENDS Integers, Sequences, FiniteSets, TLC

VARIABLES
    \* ---- entry point and crew run (Spec) ----
    script,       \* which script runs: "main", "zyklus1", "zyklus2"
    apiKey,       \* "OPENAI_API_KEY" in os.environ
    dirKind,      \* what PROJECT_DIR names: "missing", "file", "dir"
    readme,       \* PROJECT_DIR/README.md: "absent", "file", "unreadable"
    pc,           \* "start", "kickoff" (inside Crew.kickoff), "exited"
    status,       \* task index -> "pending" | "running" | "completed" | "failed"
    output,       \* task index -> <<>> or <<captured text>>
    context,      \* task index -> sequence of texts handed over as context
    recalled,     \* task index -> set of task indices whose result memory recalled
    started,      \* sequence of task indices in the order they were started
    iter,         \* tool rounds done by the running task
    lastTool,     \* <<>> or <<task index, tool>>: the latest tool invocation
    result,       \* what kickoff handed to its caller
    printed,      \* sequence of messages of the entry point
    exitStatus,   \* <<>> while the process runs, <<code>> once it has exited
    \* ---- tools and file system (SpecTools) ----
    linesep,      \* os.linesep of the platform: <<"LF">> or <<"CR", "LF">>
    node,         \* path -> file-system node
    calls,        \* number of tool calls made
    lastCall,     \* the last tool call: tool, file_path, content
    ret           \* what the last tool call did: returned string or raised

pipeVars == <<script, apiKey, dirKind, readme, pc, status, output, context,
              recalled, started, iter, lastTool, result, printed, exitStatus>>
toolVars == <<linesep, node, calls, lastCall, ret>>
vars == <<pipeVars, toolVars>>

(***************************************************************************)
(* Crews: the task lists, the agents, the context lists and the crew flags *)
(***************************************************************************)
Scripts == {"main", "zyklus1", "zyklus2"}

\* The texts the collaborator may return for a task.
Texts == {"T1", "T2"}

\* Crew(tasks=[...]) of each script, in list order.
tasks(s) ==
    CASE s = "main"    -> <<"structure_analysis_task", "code_analysis_task",
                            "documentation_task", "review_task">>
      [] s = "zyklus1" -> <<"analysis_task", "writing_task">>
      [] s = "zyklus2" -> <<"navigation_task", "diagram_task", "writing_task">>

\* Task(context=[...]) of each task; a task without the argument has none.
task_context(s) ==
    CASE s = "main"    -> [structure_analysis_task |-> <<>>,
                           code_analysis_task |-> <<"structure_analysis_task">>,
                           documentation_task |-> <<"structure_analysis_task",
                                                    "code_analysis_task">>,
                           review_task |-> <<"documentation_task">>]
      [] s = "zyklus1" -> [analysis_task |-> <<>>,
                           writing_task |-> <<"analysis_task">>]
      [] s = "zyklus2" -> [navigation_task |-> <<>>,
                           diagram_task |-> <<"navigation_task">>,
                           writing_task |-> <<"navigation_task", "diagram_task">>]

\* Task(agent=...) of each task.
task_agent(s) ==
    CASE s = "main"    -> [structure_analysis_task |-> "navigator_agent",
                           code_analysis_task |-> "code_analyzer_agent",
                           documentation_task |-> "writer_agent",
                           review_task |-> "reviewer_agent"]
      [] s = "zyklus1" -> [analysis_task |-> "code_analysis_agent",
                           writing_task |-> "writer_agent"]
      [] s = "zyklus2" -> [navigation_task |-> "navigator_agent",
                           diagram_task |-> "diagram_agent",
                           writing_task |-> "writer_agent"]

\* Agent(tools=[...]) of main.py; the agents of the archived cycles have none.
agent_tools(s) ==
    IF s = "main"
    THEN [navigator_agent |-> {"directory_tool", "file_tool"},
          code_analyzer_agent |-> {"file_tool", "code_analyzer_tool"},
          writer_agent |-> {"file_write_tool"},
          reviewer_agent |-> {"file_tool", "file_write_tool"}]
    ELSE [a \in {"code_analysis_agent", "writer_agent", "navigator_agent",
                 "diagram_agent"} |-> {}]

\* Agent(max_iter=...) of main.py.
max_iter ==
    [navigator_agent |-> 5, code_analyzer_agent |-> 5,
     writer_agent |-> 3, reviewer_agent |-> 2]

\* Crew(memory=True) is set by main.py only.
crew_memory(s) == s = "main"

\* Crew(full_output=True) is set by main.py only.
crew_full_output(s) == s = "main"

NTasks(s) == Len(tasks(s))

\* Task indices of the longest task list.
Stages == 1..NTasks("main")

\* Index of task name t in the task list of script s.
TaskIndex(s, t) == CHOOSE i \in 1..NTasks(s) : tasks(s)[i] = t

\* The context list of the i-th task, as task indices.
depends_on(s, i) ==
    LET c == task_context(s)[tasks(s)[i]]
    IN  [j \in 1..Len(c) |-> TaskIndex(s, c[j])]

\* Mutant: every worker holds every tool of its crew.
capabilities_crew(s, i) == UNION {agent_tools(s)[a] : a \in DOMAIN agent_tools(s)}

\* The tools the worker of the i-th task holds.
capabilities(s, i) == agent_tools(s)[task_agent(s)[tasks(s)[i]]]

NoResult == [kind |-> "none"]

(***************************************************************************)
(* Tool-side state, held fixed while the crew runs                         *)
(***************************************************************************)
NoCall == [tool |-> "none"]
NoRet == [kind |-> "none"]

ToolsIdle ==
    /\ linesep = <<"LF">>
    /\ node = <<>>
    /\ calls = 0
    /\ lastCall = NoCall
    /\ ret = NoRet

(***************************************************************************)
(* Entry points and the sequential crew run                                *)
(***************************************************************************)
Init ==
    /\ script \in Scripts
    /\ apiKey \in (IF script = "zyklus2" THEN BOOLEAN ELSE {TRUE})
    /\ dirKind \in (IF script = "main" THEN {"missing", "file", "dir"} ELSE {"dir"})
    /\ readme \in (IF script = "main" /\ dirKind = "dir"
                   THEN {"absent", "file", "unreadable"} ELSE {"absent"})
    /\ pc = "start"
    /\ status = [i \in Stages |-> "pending"]
    /\ output = [i \in Stages |-> <<>>]
    /\ context = [i \in Stages |-> <<>>]
    /\ recalled = [i \in Stages |-> {}]
    /\ started = <<>>
    /\ iter = 0
    /\ lastTool = <<>>
    /\ result = NoResult
    /\ printed = <<>>
    /\ exitStatus = <<>>
    /\ ToolsIdle

\* Mutant: main.py without the validation of PROJECT_DIR.
MainStartup_unchecked ==
    /\ pc = "start"
    /\ script = "main"
    /\ printed' = <<"Starting MADS">>
    /\ pc' = "kickoff"
    /\ exitStatus' = <<>>
    /\ UNCHANGED <<script, apiKey, dirKind, readme, status, output, context,
                   recalled, started, iter, lastTool, result, toolVars>>

\* main.py: PROJECT_DIR is validated, the banner printed, kickoff called.
MainStartup ==
    /\ pc = "start"
    /\ script = "main"
    /\ IF dirKind = "missing"
       THEN /\ printed' = <<"ERROR: Directory not found", "Please set PROJECT_DIR">>
            /\ pc' = "exited"
            /\ exitStatus' = <<1>>
       ELSE IF dirKind = "file"
       THEN \* os.listdir raises outside any try block
            /\ printed' = <<"Target directory found", "Traceback">>
            /\ pc' = "exited"
            /\ exitStatus' = <<1>>
       ELSE /\ printed' = <<"Target directory found", "Files found", "Starting MADS">>
            /\ pc' = "kickoff"
            /\ exitStatus' = <<>>
    /\ UNCHANGED <<script, apiKey, dirKind, readme, status, output, context,
                   recalled, started, iter, lastTool, result, toolVars>>

\* zyklus1.py: the banner is printed and kickoff called.
Zyklus1Startup ==
    /\ pc = "start"
    /\ script = "zyklus1"
    /\ printed' = <<"Starting MADS">>
    /\ pc' = "kickoff"
    /\ UNCHANGED <<script, apiKey, dirKind, readme, status, output, context,
                   recalled, started, iter, lastTool, result, exitStatus, toolVars>>

\* zyklus2.py: without the API key the script prints an error and calls exit().
Zyklus2Startup ==
    /\ pc = "start"
    /\ script = "zyklus2"
    /\ IF ~apiKey
       THEN /\ printed' = <<"ERROR: Please set OPENAI_API_KEY">>
            /\ pc' = "exited"
            /\ exitStatus' = <<0>>
       ELSE /\ printed' = <<"Starting MADS">>
            /\ pc' = "kickoff"
            /\ exitStatus' = <<>>
    /\ UNCHANGED <<script, apiKey, dirKind, readme, status, output, context,
                   recalled, started, iter, lastTool, result, toolVars>>

\* The captured results of the tasks d names, one after the other; a task
\* that has no result yet contributes nothing.
RECURSIVE ConcatResults(_, _)
ConcatResults(d, out) ==
    IF d = <<>> THEN <<>> ELSE out[Head(d)] \o ConcatResults(Tail(d), out)

\* The list d back to front.
RECURSIVE Reversed(_)
Reversed(d) == IF d = <<>> THEN <<>> ELSE Reversed(Tail(d)) \o <<Head(d)>>

\* Mutant: the results of the listed tasks in reverse order.
AssembleContext_reversed(s, i, out) == ConcatResults(Reversed(depends_on(s, i)), out)

\* The results of the listed tasks, concatenated in the listed order.
AssembleContext(s, i, out) == ConcatResults(depends_on(s, i), out)

\* What memory may hand to the worker of task i: results of earlier tasks.
MemoryRecall(s, i) ==
    IF crew_memory(s) THEN SUBSET (1..(i - 1)) ELSE {{}}

\* Mutant: a pending task may start whatever the state of the tasks before it.
StartGuard_any(s, i, st) ==
    /\ i \in 1..NTasks(s)
    /\ st[i] = "pending"

\* The next task in list order may start once every task before it completed.
StartGuard(s, i, st) ==
    /\ i \in 1..NTasks(s)
    /\ st[i] = "pending"
    /\ \A j \in 1..(i - 1) : st[j] = "completed"

\* Process.sequential: the runner hands the next task to its worker.
StartStage(i) ==
    /\ pc = "kickoff"
    /\ StartGuard(script, i, status)
    /\ status' = [status EXCEPT ![i] = "running"]
    /\ context' = [context EXCEPT ![i] = AssembleContext(script, i, output)]
    /\ \E m \in MemoryRecall(script, i) : recalled' = [recalled EXCEPT ![i] = m]
    /\ started' = Append(started, i)
    /\ iter' = 0
    /\ UNCHANGED <<script, apiKey, dirKind, readme, pc, output, lastTool, result,
                   printed, exitStatus, toolVars>>

\* Mutant: max_iter is not applied.
Invocable_uncapped(s, i, n) == capabilities(s, i)

\* The tools the worker of task i may invoke in its next round.
Invocable(s, i, n) ==
    IF n < max_iter[task_agent(s)[tasks(s)[i]]] THEN capabilities(s, i) ELSE {}

\* One tool round of the running task's worker; only the agents of main.py
\* hold tools.
ToolRound(i, tool) ==
    /\ pc = "kickoff"
    /\ i \in 1..NTasks(script)
    /\ status[i] = "running"
    /\ script = "main"
    /\ tool \in Invocable(script, i, iter)
    /\ iter' = iter + 1
    /\ lastTool' = <<i, tool>>
    /\ IF tool = "file_write_tool"
       THEN readme' \in {readme, "file"}
       ELSE readme' = readme
    /\ UNCHANGED <<script, apiKey, dirKind, pc, status, output, context, recalled,
                   started, result, printed, exitStatus, toolVars>>

\* Mutant: the final output is taken from the first task.
KickoffReturn_first(s, out) ==
    IF crew_full_output(s)
    THEN [kind |-> "full_output",
          final_output |-> out[1][1],
          tasks_outputs |-> [j \in 1..NTasks(s) |-> out[j][1]]]
    ELSE [kind |-> "raw", raw |-> out[1][1]]

\* What kickoff returns once the last task has completed.
KickoffReturn(s, out) ==
    IF crew_full_output(s)
    THEN [kind |-> "full_output",
          final_output |-> out[NTasks(s)][1],
          tasks_outputs |-> [j \in 1..NTasks(s) |-> out[j][1]]]
    ELSE [kind |-> "raw", raw |-> out[NTasks(s)][1]]

\* Mutant: a missing README.md is reported like a failed run.
MainAfterRun_strict(r) ==
    IF r = "file" THEN <<"Documentation Generation Complete",
                         "README.md created successfully", "Location">>
    ELSE <<"Documentation Generation Complete", "Error during execution",
           "Please check your configuration">>

\* main.py after kickoff returned: the README check, inside the try block.
MainAfterRun(r) ==
    IF r = "file" THEN <<"Documentation Generation Complete",
                         "README.md created successfully", "Location">>
    ELSE IF r = "absent"
    THEN <<"Documentation Generation Complete", "README.md not found">>
    ELSE <<"Documentation Generation Complete", "Error during execution",
           "Please check your configuration">>

\* The exit status of the process after the crew run raised.
ExitAfterFailure(s) == IF s = "main" THEN 0 ELSE 1

\* The collaborator returns text t for the running task i.
CompleteStage(i, t) ==
    /\ pc = "kickoff"
    /\ i \in 1..NTasks(script)
    /\ status[i] = "running"
    /\ status' = [status EXCEPT ![i] = "completed"]
    /\ output' = [output EXCEPT ![i] = <<t>>]
    /\ IF i = NTasks(script)
       THEN /\ result' = KickoffReturn(script, output')
            /\ printed' = printed \o (IF script = "main" THEN MainAfterRun(readme)
                                      ELSE <<"Complete", "result">>)
            /\ pc' = "exited"
            /\ exitStatus' = <<0>>
       ELSE UNCHANGED <<result, printed, pc, exitStatus>>
    /\ UNCHANGED <<script, apiKey, dirKind, readme, context, recalled, started,
                   iter, lastTool, toolVars>>

\* The task states once task i has raised: the run is abandoned.
AfterFailure(st, i) == [st EXCEPT ![i] = "failed"]

\* Mutant: the runner swallows the failure and hands on to the next task.
FailStage_continue(i) ==
    /\ pc = "kickoff"
    /\ i \in 1..NTasks(script)
    /\ status[i] = "running"
    /\ IF i < NTasks(script)
       THEN /\ status' = [status EXCEPT ![i] = "failed", ![i + 1] = "running"]
            /\ started' = Append(started, i + 1)
            /\ UNCHANGED <<pc, exitStatus, result>>
       ELSE /\ status' = [status EXCEPT ![i] = "failed"]
            /\ result' = [kind |-> "exception", stage |-> i]
            /\ pc' = "exited"
            /\ exitStatus' = <<ExitAfterFailure(script)>>
            /\ UNCHANGED started
    /\ UNCHANGED <<script, apiKey, dirKind, readme, output, context, recalled,
                   iter, lastTool, printed, toolVars>>

\* The collaborator reports a failure for the running task i.
FailStage(i) ==
    /\ pc = "kickoff"
    /\ i \in 1..NTasks(script)
    /\ status[i] = "running"
    /\ status' = AfterFailure(status, i)
    /\ result' = [kind |-> "exception", stage |-> i]
    /\ printed' = printed \o (IF script = "main"
                              THEN <<"Error during execution",
                                     "Please check your configuration">>
                              ELSE <<"Traceback">>)
    /\ pc' = "exited"
    /\ exitStatus' = <<ExitAfterFailure(script)>>
    /\ UNCHANGED <<script, apiKey, dirKind, readme, output, context, recalled,
                   started, iter, lastTool, toolVars>>

Next ==
    \/ MainStartup
    \/ Zyklus1Startup
    \/ Zyklus2Startup
    \/ \E i \in Stages : StartStage(i)
    \/ \E i \in Stages : \E tool \in {"directory_tool", "file_tool",
                                      "code_analyzer_tool", "file_write_tool"} :
           ToolRound(i, tool)
    \/ \E i \in Stages : \E t \in Texts : CompleteStage(i, t)
    \/ \E i \in Stages : FailStage(i)

Spec == Init /\ [][Next]_vars

\* The run with a runner that goes on to the next task and a collaborator
\* that answers every call: a step that can be taken is taken.
FairSpec == Spec /\ WF_vars(Next)

(***************************************************************************)
(* Text, UTF-8 and the file system the tools work on                       *)
(*                                                                         *)
(* A text is a sequence of characters, a file a sequence of bytes.  An     *)
(* ASCII character and its byte carry the same name ("LF" is '\n', "CR"    *)
(* is '\r'); "U+00E9" is a two-byte character (bytes "C3" "A9"), "U+D800"  *)
(* a lone surrogate, which UTF-8 cannot encode; "FF" is no UTF-8 byte.     *)
(* A path is the sequence of its components, relative to the working       *)
(* directory <<>>.                                                         *)
(***************************************************************************)
MaxCalls == 2

NulName == "a\\0b"

README == <<"README.md">>
OutDir == <<"out">>
SubDir == <<"out", "sub">>
OutReadme == <<"out", "README.md">>
SubReadme == <<"out", "sub", "README.md">>
AppPy == <<"app.py">>
DataBin == <<"data.bin">>
LockedPy == <<"locked.py">>
MissingPy == <<"missing.py">>
DepsJs == <<"deps.js">>
NulPath == <<NulName>>

NodePaths == {OutDir, SubDir, README, OutReadme, SubReadme, AppPy, DataBin, LockedPy,
              DepsJs}

\* Arguments the tools are called with.
WritePaths == {README, OutReadme, SubReadme, OutDir, NulPath}
ReadPaths == {README, OutReadme, OutDir, AppPy, DataBin, LockedPy, MissingPy, NulPath,
              DepsJs}
Contents == {<<>>, <<"a">>, <<"LF">>, <<"U+00E9">>, <<"U+D800">>,
             <<"a", "LF", "U+00E9">>}
WriteFaults == {"none", "makedirs", "write"}
ReadFaults == {"none", "read"}

Absent == [kind |-> "absent"]
Dir(w) == [kind |-> "dir", writable |-> w]
File(b, r) == [kind |-> "file", bytes |-> b, readable |-> r]

\* "import os\nclass A:\n def f", the source file present from the start.
AppSource ==
    <<"i", "m", "p", "o", "r", "t", " ", "o", "s", "LF",
      "c", "l", "a", "s", "s", " ", "A", ":", "LF",
      " ", "d", "e", "f", " ", "f">>

\* "from a\r\n from a\nx\nrequired", a second source file present from the
\* start.
DepsSource ==
    <<"f", "r", "o", "m", " ", "a", "CR", "LF",
      " ", "f", "r", "o", "m", " ", "a", "LF",
      "x", "LF",
      "r", "e", "q", "u", "i", "r", "e", "d">>

\* The node a path names; the working directory is a writable directory.
Lookup(fs, p) ==
    IF p = <<>> THEN Dir(TRUE)
    ELSE IF p \in DOMAIN fs THEN fs[p]
    ELSE Absent

\* os.path.dirname
dirname(p) == IF p = <<>> THEN <<>> ELSE SubSeq(p, 1, Len(p) - 1)

\* os.path.exists
exists(fs, p) == Lookup(fs, p).kind # "absent"

\* os.path.splitext(file_path)[1], over the names in use.
splitext(p) ==
    IF p = <<>> THEN ""
    ELSE CASE p[Len(p)] = "README.md"  -> ".md"
           [] p[Len(p)] = "app.py"     -> ".py"
           [] p[Len(p)] = "locked.py"  -> ".py"
           [] p[Len(p)] = "missing.py" -> ".py"
           [] p[Len(p)] = "data.bin"   -> ".bin"
           [] p[Len(p)] = "deps.js"    -> ".js"
           [] OTHER                    -> ""

\* A path with an embedded null byte is rejected by open() with ValueError.
HasNul(p) == \E k \in 1..Len(p) : p[k] = NulName

OSErrors == {"FileNotFoundError", "NotADirectoryError", "IsADirectoryError",
             "PermissionError", "FileExistsError", "OSError"}
Exceptions == OSErrors \cup {"ValueError", "UnicodeEncodeError", "UnicodeDecodeError"}

\* str.encode('utf-8') is defined unless the text holds a surrogate.
CanEncode(text) == \A k \in 1..Len(text) : text[k] # "U+D800"

\* The bytes a text file opened with encoding="utf-8" stores for one character:
\* '\n' becomes os.linesep, a non-ASCII character its UTF-8 sequence.
EncodeChar(c, sep) ==
    IF c = "LF" THEN sep
    ELSE IF c = "U+00E9" THEN <<"C3", "A9">>
    ELSE <<c>>

RECURSIVE Encode(_, _)
Encode(text, sep) ==
    IF text = <<>> THEN <<>>
    ELSE EncodeChar(Head(text), sep) \o Encode(Tail(text), sep)

\* bytes.decode('utf-8'): [ok, text].
RECURSIVE DecodeUtf8(_)
DecodeUtf8(b) ==
    IF b = <<>> THEN [ok |-> TRUE, text |-> <<>>]
    ELSE IF Head(b) = "C3"
    THEN IF Len(b) >= 2 /\ b[2] = "A9"
         THEN LET r == DecodeUtf8(SubSeq(b, 3, Len(b)))
              IN  [ok |-> r.ok, text |-> <<"U+00E9">> \o r.text]
         ELSE [ok |-> FALSE, text |-> <<>>]
    ELSE IF Head(b) \in {"A9", "FF"}
    THEN [ok |-> FALSE, text |-> <<>>]
    ELSE LET r == DecodeUtf8(Tail(b))
         IN  [ok |-> r.ok, text |-> <<Head(b)>> \o r.text]

\* Reading in text mode: '\r\n' and '\r' are handed over as '\n'.
RECURSIVE UniversalNewlines(_)
UniversalNewlines(text) ==
    IF text = <<>> THEN <<>>
    ELSE IF Head(text) = "CR"
    THEN IF Len(text) >= 2 /\ text[2] = "LF"
         THEN <<"LF">> \o UniversalNewlines(SubSeq(text, 3, Len(text)))
         ELSE <<"LF">> \o UniversalNewlines(Tail(text))
    ELSE <<Head(text)>> \o UniversalNewlines(Tail(text))

(***************************************************************************)
(* File-system calls: each yields [ok, fs, e]                              *)
(***************************************************************************)
Ok(fs) == [ok |-> TRUE, fs |-> fs, e |-> "none"]
Err(fs, e) == [ok |-> FALSE, fs |-> fs, e |-> e]

\* os.mkdir
mkdir(fs, d) ==
    LET parent == Lookup(fs, dirname(d))
    IN  IF exists(fs, d) THEN Err(fs, "FileExistsError")
        ELSE IF parent.kind = "absent" THEN Err(fs, "FileNotFoundError")
        ELSE IF parent.kind = "file" THEN Err(fs, "NotADirectoryError")
        ELSE IF ~parent.writable THEN Err(fs, "PermissionError")
        ELSE Ok([fs EXCEPT ![d] = Dir(TRUE)])

\* Mutant: os.mkdir in place of os.makedirs, no missing ancestor is created.
makedirs_leaf(fs, d, fault) ==
    IF fault = "makedirs" THEN Err(fs, "OSError") ELSE mkdir(fs, d)

\* os.makedirs: the missing ancestors first, then the directory itself; the
\* fault is an I/O error of the device at the last mkdir.
RECURSIVE makedirs(_, _, _)
makedirs(fs, d, fault) ==
    LET head == dirname(d)
        r == IF head # <<>> /\ ~exists(fs, head)
             THEN makedirs(fs, head, "none")
             ELSE Ok(fs)
    IN  IF ~r.ok THEN r
        ELSE IF fault = "makedirs" THEN Err(r.fs, "OSError")
        ELSE mkdir(r.fs, d)

\* Mutant: open(file_path, "a"), an existing file keeps its bytes.
open_a(fs, p) ==
    LET parent == Lookup(fs, dirname(p))
        n == Lookup(fs, p)
    IN  IF HasNul(p) THEN Err(fs, "ValueError")
        ELSE IF p = <<>> \/ parent.kind = "absent" THEN Err(fs, "FileNotFoundError")
        ELSE IF parent.kind = "file" THEN Err(fs, "NotADirectoryError")
        ELSE IF n.kind = "dir" THEN Err(fs, "IsADirectoryError")
        ELSE IF n.kind = "absent" /\ ~parent.writable THEN Err(fs, "PermissionError")
        ELSE IF n.kind = "file" THEN Ok(fs)
        ELSE Ok([fs EXCEPT ![p] = File(<<>>, TRUE)])

\* open(file_path, "w"): the file is created, or truncated when it exists.
open_w(fs, p) ==
    LET parent == Lookup(fs, dirname(p))
        n == Lookup(fs, p)
    IN  IF HasNul(p) THEN Err(fs, "ValueError")
        ELSE IF p = <<>> \/ parent.kind = "absent" THEN Err(fs, "FileNotFoundError")
        ELSE IF parent.kind = "file" THEN Err(fs, "NotADirectoryError")
        ELSE IF n.kind = "dir" THEN Err(fs, "IsADirectoryError")
        ELSE IF n.kind = "absent" /\ ~parent.writable THEN Err(fs, "PermissionError")
        ELSE IF n.kind = "file" THEN Ok([fs EXCEPT ![p] = File(<<>>, n.readable)])
        ELSE Ok([fs EXCEPT ![p] = File(<<>>, TRUE)])

\* f.write(content) and the close at the end of the with block: [ok, fs, e].
\* The text is encoded as a whole before any byte is stored; a device error
\* at the flush leaves the file as open() left it.
write(fs, p, content, sep, fault) ==
    IF ~CanEncode(content) THEN Err(fs, "UnicodeEncodeError")
    ELSE IF fault = "write" THEN Err(fs, "OSError")
    ELSE Ok([fs EXCEPT ![p] = File(fs[p].bytes \o Encode(content, sep),
                                   fs[p].readable)])

(***************************************************************************)
(* FileWriteTool._run                                                      *)
(***************************************************************************)
Returned(text) == [kind |-> "returned", text |-> text]
Raised(e) == [kind |-> "raised", e |-> e]

\* f"File '{file_path}' successfully written with {len(content)} characters."
WriteSuccess(file_path, content) ==
    [msg |-> "successfully written", file_path |-> file_path, n |-> Len(content)]

\* f"Error writing file '{file_path}': {e}"
WriteError(file_path, e) == [msg |-> "Error writing file", file_path |-> file_path, e |-> e]

\* except IOError
FileWriteCatches(e) == e \in OSErrors

\* The outcome of the try block once an exception e was raised in it.
FileWriteExcept(file_path, e) ==
    IF FileWriteCatches(e) THEN Returned(WriteError(file_path, e)) ELSE Raised(e)

\* _run(file_path, content): [fs, ret, dir_existed].
FileWriteTool_run(fs, sep, file_path, content, fault) ==
    LET output_dir == dirname(file_path)
        dir_existed == exists(fs, output_dir)
        made == IF output_dir # <<>> /\ ~dir_existed
                THEN makedirs(fs, output_dir, fault)
                ELSE Ok(fs)
        opened == open_w(made.fs, file_path)
        written == write(opened.fs, file_path, content, sep, fault)
    IN  IF ~made.ok
        THEN [fs |-> made.fs, ret |-> FileWriteExcept(file_path, made.e)]
        ELSE IF ~opened.ok
        THEN [fs |-> opened.fs, ret |-> FileWriteExcept(file_path, opened.e)]
        ELSE IF ~written.ok
        THEN [fs |-> written.fs, ret |-> FileWriteExcept(file_path, written.e)]
        ELSE [fs |-> written.fs, ret |-> Returned(WriteSuccess(file_path, content))]

(***************************************************************************)
(* CodeAnalyzerTool._run                                                   *)
(***************************************************************************)
\* open(file_path, 'r', encoding='utf-8') and f.read(): [ok, text, e].
read_text(fs, p, fault) ==
    LET parent == Lookup(fs, dirname(p))
        n == Lookup(fs, p)
        dec == DecodeUtf8(n.bytes)
    IN  IF HasNul(p) THEN [ok |-> FALSE, text |-> <<>>, e |-> "ValueError"]
        ELSE IF parent.kind = "file"
        THEN [ok |-> FALSE, text |-> <<>>, e |-> "NotADirectoryError"]
        ELSE IF n.kind = "absent"
        THEN [ok |-> FALSE, text |-> <<>>, e |-> "FileNotFoundError"]
        ELSE IF n.kind = "dir"
        THEN [ok |-> FALSE, text |-> <<>>, e |-> "IsADirectoryError"]
        ELSE IF ~n.readable
        THEN [ok |-> FALSE, text |-> <<>>, e |-> "PermissionError"]
        ELSE IF fault = "read"
        THEN [ok |-> FALSE, text |-> <<>>, e |-> "OSError"]
        ELSE IF ~dec.ok
        THEN [ok |-> FALSE, text |-> <<>>, e |-> "UnicodeDecodeError"]
        ELSE [ok |-> TRUE, text |-> UniversalNewlines(dec.text), e |-> "none"]

\* content.split('\n')
RECURSIVE split(_)
split(text) ==
    IF \A k \in 1..Len(text) : text[k] # "LF" THEN <<text>>
    ELSE LET k == CHOOSE k \in 1..Len(text) :
                      text[k] = "LF" /\ \A j \in 1..(k - 1) : text[j] # "LF"
         IN  <<SubSeq(text, 1, k - 1)>> \o split(SubSeq(text, k + 1, Len(text)))

Whitespace == {" ", "TAB", "LF", "CR"}

\* l.strip()
RECURSIVE strip(_)
strip(l) ==
    IF l = <<>> THEN <<>>
    ELSE IF Head(l) \in Whitespace THEN strip(Tail(l))
    ELSE IF l[Len(l)] \in Whitespace THEN strip(SubSeq(l, 1, Len(l) - 1))
    ELSE l

\* l.startswith(prefix)
startswith(l, prefix) ==
    Len(l) >= Len(prefix) /\ SubSeq(l, 1, Len(prefix)) = prefix

\* needle in content
contains(text, needle) ==
    \E k \in 0..(Len(text) - Len(needle)) :
        SubSeq(text, k + 1, k + Len(needle)) = needle

\* ('import ', 'from ', 'require', 'include')
ImportPrefixes ==
    {<<"i", "m", "p", "o", "r", "t", " ">>, <<"f", "r", "o", "m", " ">>,
     <<"r", "e", "q", "u", "i", "r", "e">>, <<"i", "n", "c", "l", "u", "d", "e">>}

\* Mutant: the prefix is looked for in the line as read, not in l.strip().
is_import_raw(l) == \E prefix \in ImportPrefixes : startswith(l, prefix)

is_import(l) == \E prefix \in ImportPrefixes : startswith(strip(l), prefix)

\* [l.strip() for l in lines if l.strip().startswith(...)]
RECURSIVE imports(_)
imports(lines) ==
    IF lines = <<>> THEN <<>>
    ELSE IF is_import(Head(lines)) THEN <<strip(Head(lines))>> \o imports(Tail(lines))
    ELSE imports(Tail(lines))

\* The analysis dict handed to json.dumps.
analysis(file_path, content) ==
    [msg |-> "analysis",
     file |-> file_path,
     lines |-> Len(split(content)),
     has_classes |-> contains(content, <<"c", "l", "a", "s", "s", " ">>),
     has_functions |-> \/ contains(content, <<"d", "e", "f", " ">>)
                       \/ contains(content, <<"f", "u", "n", "c", "t", "i", "o", "n", " ">>),
     imports |-> imports(split(content)),
     file_type |-> splitext(file_path)]

\* f"Error analyzing {file_path}: {e}"
AnalyzeError(file_path, e) == [msg |-> "Error analyzing", file_path |-> file_path, e |-> e]

\* Mutant: except IOError, as in FileWriteTool.
CodeAnalyzerCatches_io(e) == e \in OSErrors

\* except Exception
CodeAnalyzerCatches(e) == e \in Exceptions

\* _run(file_path): what the call returns or raises.
CodeAnalyzerTool_run(fs, file_path, fault) ==
    LET r == read_text(fs, file_path, fault)
    IN  IF r.ok THEN Returned(analysis(file_path, r.text))
        ELSE IF CodeAnalyzerCatches(r.e) THEN Returned(AnalyzeError(file_path, r.e))
        ELSE Raised(r.e)

(***************************************************************************)
(* The tools at work on the file system                                    *)
(***************************************************************************)
CrewIdle ==
    /\ script = "main"
    /\ apiKey = TRUE
    /\ dirKind = "dir"
    /\ readme = "absent"
    /\ pc = "start"
    /\ status = [i \in Stages |-> "pending"]
    /\ output = [i \in Stages |-> <<>>]
    /\ context = [i \in Stages |-> <<>>]
    /\ recalled = [i \in Stages |-> {}]
    /\ started = <<>>
    /\ iter = 0
    /\ lastTool = <<>>
    /\ result = NoResult
    /\ printed = <<>>
    /\ exitStatus = <<>>

\* The files and directories present before the first call.
InitialNodes(out) ==
    [p \in NodePaths |->
        IF p = OutDir THEN out
        ELSE IF p = AppPy THEN File(AppSource, TRUE)
        ELSE IF p = DepsJs THEN File(DepsSource, TRUE)
        ELSE IF p = DataBin THEN File(<<"a", "FF">>, TRUE)
        ELSE IF p = LockedPy THEN File(<<"a">>, FALSE)
        ELSE Absent]

InitTools ==
    /\ CrewIdle
    /\ linesep \in {<<"LF">>, <<"CR", "LF">>}
    /\ \E out \in {Absent, Dir(TRUE), Dir(FALSE)} : node = InitialNodes(out)
    /\ calls = 0
    /\ lastCall = NoCall
    /\ ret = NoRet

\* The directories a call created.
Created(fs, fs2) == {p \in NodePaths : fs[p].kind = "absent" /\ fs2[p].kind = "dir"}

\* A worker calls the File Writer.
FileWrite(file_path, content, fault) ==
    /\ calls < MaxCalls
    /\ LET r == FileWriteTool_run(node, linesep, file_path, content, fault)
       IN  /\ node' = r.fs
           /\ ret' = r.ret
           /\ lastCall' = [tool |-> "File Writer", file_path |-> file_path,
                           content |-> content, fault |-> fault,
                           dir_existed |-> exists(node, dirname(file_path)),
                           created |-> Created(node, r.fs)]
    /\ calls' = calls + 1
    /\ UNCHANGED <<linesep, pipeVars>>

\* A worker calls the Code Analyzer.
CodeAnalyze(file_path, fault) ==
    /\ calls < MaxCalls
    /\ ret' = CodeAnalyzerTool_run(node, file_path, fault)
    /\ lastCall' = [tool |-> "Code Analyzer", file_path |-> file_path,
                    fault |-> fault]
    /\ calls' = calls + 1
    /\ UNCHANGED <<linesep, node, pipeVars>>

NextTools ==
    \/ \E file_path \in WritePaths : \E content \in Contents :
           \E fault \in WriteFaults : FileWrite(file_path, content, fault)
    \/ \E file_path \in ReadPaths : \E fault \in ReadFaults :
           CodeAnalyze(file_path, fault)

SpecTools == InitTools /\ [][NextTools]_vars

(***************************************************************************)
(* Properties of the crew run and the entry points                         *)
(***************************************************************************)
Ran(i) == i \in 1..NTasks(script) /\ status[i] # "pending"
AllCompleted == \A i \in 1..NTasks(script) : status[i] = "completed"
NonZeroExit == exitStatus # <<>> /\ exitStatus[1] # 0

C2_Ordering ==
    /\ started = [j \in 1..Len(started) |-> j]
    /\ Len(started) <= NTasks(script)
    /\ \A i \in Stages : status[i] # "pending" <=> i \in 1..Len(started)
    /\ \A i \in 2..Len(started) : status[i - 1] = "completed"
    /\ Cardinality({i \in Stages : status[i] = "running"}) <= 1

C2_Witness ==
    /\ script = "main"
    /\ started = <<1, 2, 3, 4>>
    /\ status[4] = "running"

\* The context list of task i applied to the captured results.
ListedResults(i) == [j \in 1..Len(depends_on(script, i)) |->
                        output[depends_on(script, i)[j]][1]]
ListedStages(i) == {depends_on(script, i)[j] : j \in 1..Len(depends_on(script, i))}

C4_MissingDirectory ==
    (script = "main" /\ dirKind = "missing") =>
        /\ pc # "kickoff"
        /\ \A i \in Stages : status[i] = "pending"
        /\ started = <<>>
        /\ result = NoResult
        /\ pc = "exited" => NonZeroExit

C4_Witness ==
    /\ script = "main"
    /\ dirKind = "missing"
    /\ pc = "exited"
    /\ exitStatus = <<1>>

\* C5 (as stated): when a stage fails, main.py prints a diagnostic and exits
\* with a non-zero status; an exit status of zero means every stage completed.
C5_StageFailureExit ==
    (script = "main" /\ pc = "exited") =>
        /\ (\E k \in Stages : status[k] = "failed") =>
               /\ \E n \in 1..Len(printed) : printed[n] = "Error during execution"
               /\ NonZeroExit
        /\ exitStatus = <<0>> => AllCompleted

\* The text kickoff's result carries as the run's final output.
FinalText(r) ==
    IF r.kind = "raw" THEN <<r.raw>>
    ELSE IF r.kind = "full_output" THEN <<r.final_output>>
    ELSE <<>>

\* C6 (as stated): when all stages complete, the value kickoff returns is
\* exactly the text captured from the last stage.
C6_Original ==
    AllCompleted => result = [kind |-> "raw", raw |-> output[NTasks(script)][1]]

\* C6 (amended): when all stages complete, the final output kickoff returns
\* is the text captured from the last stage; a crew with full_output
\* (main.py) returns it inside a record that also lists every stage's text.
C6_FinalOutput ==
    AllCompleted =>
        /\ FinalText(result) = output[NTasks(script)]
        /\ IF crew_full_output(script)
           THEN /\ result.kind = "full_output"
                /\ result.tasks_outputs = [j \in 1..NTasks(script) |-> output[j][1]]
           ELSE result.kind = "raw"

C6_Witness ==
    /\ script = "main"
    /\ AllCompleted
    /\ output[1] = <<"T1">>
    /\ output[4] = <<"T2">>
    /\ result.final_output = "T2"

(***************************************************************************)
(* Properties of the tools                                                 *)
(***************************************************************************)
WriterCalled == lastCall.tool = "File Writer"
AnalyzerCalled == lastCall.tool = "Code Analyzer"
WriteSucceeded ==
    WriterCalled /\ ret.kind = "returned" /\ ret.text.msg = "successfully written"

\* C7 (as stated): every call of FileWriteTool._run returns a string, no
\* exception escapes to the caller.
C7_NeverRaises == WriterCalled => ret.kind = "returned"

\* The text with every '\n' replaced by the line separator sep.
RECURSIVE WithLineSep(_, _)
WithLineSep(text, sep) ==
    IF text = <<>> THEN <<>>
    ELSE (IF Head(text) = "LF" THEN sep ELSE <<Head(text)>>)
         \o WithLineSep(Tail(text), sep)

\* C8 (as stated): after a successful write of non-empty content the file
\* exists, its bytes are exactly content, and the status states len(content).
C8_Original ==
    (WriteSucceeded /\ lastCall.content # <<>>) =>
        /\ node[lastCall.file_path].kind = "file"
        /\ DecodeUtf8(node[lastCall.file_path].bytes) =
               [ok |-> TRUE, text |-> lastCall.content]
        /\ ret.text.n = Len(lastCall.content)

\* C8 (amended): after a successful write of non-empty content the file
\* exists and holds the UTF-8 encoding of content with every '\n' written as
\* os.linesep (exactly content where os.linesep is '\n'), whatever the file
\* held before, and the status states len(content).
C8_WriteResult ==
    (WriteSucceeded /\ lastCall.content # <<>>) =>
        /\ node[lastCall.file_path].kind = "file"
        /\ DecodeUtf8(node[lastCall.file_path].bytes) =
               [ok |-> TRUE, text |-> WithLineSep(lastCall.content, linesep)]
        /\ linesep = <<"LF">> =>
               DecodeUtf8(node[lastCall.file_path].bytes).text = lastCall.content
        /\ ret.text.n = Len(lastCall.content)
        /\ ret.text.file_path = lastCall.file_path

\* A second successful write to one path, of a text with a two-byte character.
C8_Witness ==
    /\ WriteSucceeded
    /\ calls = 2
    /\ lastCall.file_path = README
    /\ lastCall.content = <<"a", "LF", "U+00E9">>
    /\ linesep = <<"CR", "LF">>
    /\ node[README].bytes = <<"a", "CR", "LF", "C3", "A9">>
    /\ ret.text.n = 3

\* The proper ancestors of a path, the working directory left out.
Ancestors(p) == {SubSeq(p, 1, k) : k \in 1..(Len(p) - 1)}

\* The ancestors of the written path that were there before the call: nothing
\* is ever removed, so they are the ones present now and not created by it.
ExistedBefore ==
    {a \in Ancestors(lastCall.file_path) \ lastCall.created : node[a].kind # "absent"}

\* Before the call the missing chain hung off a writable directory: the
\* working directory, or the deepest ancestor then present.
ChainCreatable ==
    \A a \in ExistedBefore :
        (\A b \in ExistedBefore : Len(b) <= Len(a)) =>
            node[a].kind = "dir" /\ node[a].writable

\* C9: a call whose parent directory is missing creates the whole missing
\* chain before the file is opened and then does not fail for want of the
\* directory; a path without a directory part creates no directory.
C9_ParentDirectories ==
    (WriterCalled /\ ~HasNul(lastCall.file_path)) =>
        /\ dirname(lastCall.file_path) = <<>> => lastCall.created = {}
        /\ lastCall.dir_existed => lastCall.created = {}
        /\ lastCall.created \subseteq Ancestors(lastCall.file_path)
        /\ (~lastCall.dir_existed /\ lastCall.fault # "makedirs" /\ ChainCreatable) =>
               /\ lastCall.created # {}
               /\ \A a \in Ancestors(lastCall.file_path) : node[a].kind = "dir"
               /\ node[lastCall.file_path].kind = "file"
               /\ (lastCall.fault = "none" /\ CanEncode(lastCall.content)) =>
                      WriteSucceeded
        /\ ret.kind = "returned" /\ ret.text.msg = "Error writing file" =>
               ret.text.e # "FileNotFoundError"
        /\ WriteSucceeded =>
               \A a \in Ancestors(lastCall.file_path) : node[a].kind = "dir"

C9_Witness ==
    /\ WriteSucceeded
    /\ lastCall.file_path = SubReadme
    /\ ~lastCall.dir_existed
    /\ lastCall.created = {OutDir, SubDir}
    /\ node[SubReadme].kind = "file"

\* The analyzer call cannot read text from the path it was given.
CannotRead ==
    LET n == Lookup(node, lastCall.file_path)
    IN  \/ HasNul(lastCall.file_path)
        \/ n.kind # "file"
        \/ ~n.readable
        \/ ~DecodeUtf8(n.bytes).ok
        \/ lastCall.fault = "read"

\* C10: CodeAnalyzerTool._run on a path that is missing, unreadable or not
\* decodable returns the failure string naming the path and the error; no
\* exception escapes and no analysis record is returned.
C10_AnalyzerFailure ==
    AnalyzerCalled =>
        /\ ret.kind = "returned"
        /\ CannotRead =>
               /\ ret.text.msg = "Error analyzing"
               /\ ret.text.file_path = lastCall.file_path
               /\ ret.text.e \in Exceptions
        /\ ~CannotRead => ret.text.msg = "analysis"

C10_Witness ==
    /\ AnalyzerCalled
    /\ lastCall.file_path = DataBin
    /\ ret = Returned(AnalyzeError(DataBin, "UnicodeDecodeError"))

\* The lines of the file the analyzer was called on, as content.split('\n')
\* hands them over.
LinesRead ==
    split(UniversalNewlines(DecodeUtf8(node[lastCall.file_path].bytes).text))

\* The line, without surrounding whitespace, begins with one of the prefixes.
BeginsWithPrefix(l) ==
    \E prefix \in ImportPrefixes :
        /\ Len(strip(l)) >= Len(prefix)
        /\ \A j \in 1..Len(prefix) : strip(l)[j] = prefix[j]

\* The positions of the lines that begin with a prefix.
ImportLines == {k \in 1..Len(LinesRead) : BeginsWithPrefix(LinesRead[k])}

\* C11: the "imports" list of a returned analysis record holds one entry for
\* each line whose stripped form starts with a prefix, in file order with
\* duplicates kept, and no entry for any other line.
C11_ImportList ==
    (AnalyzerCalled /\ ret.kind = "returned" /\ ret.text.msg = "analysis") =>
        /\ Len(ret.text.imports) = Cardinality(ImportLines)
        /\ \A k \in ImportLines :
               ret.text.imports[Cardinality({j \in ImportLines : j <= k})] =
                   strip(LinesRead[k])

C11_Witness ==
    /\ AnalyzerCalled
    /\ lastCall.file_path = DepsJs
    /\ ret.kind = "returned"
    /\ ret.text.msg = "analysis"
    /\ ret.text.lines = 4
    /\ ret.text.imports =
           << <<"f", "r", "o", "m", " ", "a">>,
              <<"f", "r", "o", "m", " ", "a">>,
              <<"r", "e", "q", "u", "i", "r", "e", "d">> >>

(***************************************************************************)
(* Properties of the entry point after the run, of the tools a worker may  *)
(* use and of the rounds of a stage                                        *)
(***************************************************************************)
Said(msg) == \E n \in 1..Len(printed) : printed[n] = msg

\* C12: when every stage completed and README.md is absent afterwards,
\* main.py prints the warning only, neither the error nor the success line
\* with the line count, and the process exits with status zero.
C12_MissingReadmeWarning ==
    (script = "main" /\ pc = "exited" /\ AllCompleted /\ readme = "absent") =>
        /\ Said("README.md not found")
        /\ ~Said("Error during execution")
        /\ ~Said("README.md created successfully")
        /\ exitStatus = <<0>>

C12_Witness ==
    /\ script = "main"
    /\ pc = "exited"
    /\ AllCompleted
    /\ readme = "absent"
    /\ lastTool = <<4, "file_write_tool">>
    /\ Said("README.md not found")

StructureStage == TaskIndex("main", "structure_analysis_task")
CodeStage == TaskIndex("main", "code_analysis_task")
DocumentationStage == TaskIndex("main", "documentation_task")

\* The latest tool invocation is one the worker of its stage is allowed.
PermittedInvocation ==
    lastTool # <<>> =>
        /\ lastTool[2] \in capabilities(script, lastTool[1])
        /\ lastTool[2] = "file_write_tool" =>
               lastTool[1] \notin {StructureStage, CodeStage}
        /\ lastTool[2] = "code_analyzer_tool" => lastTool[1] = CodeStage

\* C13: a tool is invoked only while a stage runs and only if that stage's
\* worker holds it; the File Writer is never invoked in the structure or the
\* code analysis stage, so README.md is not written before the documentation
\* stage has started, and the Code Analyzer only in the code analysis stage.
C13_ToolPermission ==
    /\ []PermittedInvocation
    /\ [][iter' = iter + 1 =>
            /\ status[lastTool'[1]] = "running"
            /\ status'[lastTool'[1]] = "running"
            /\ lastTool'[2] \in capabilities(script, lastTool'[1])]_vars
    /\ [][(script = "main" /\ status[DocumentationStage] = "pending") =>
            readme' = readme]_vars

C13_Witness ==
    /\ script = "main"
    /\ status[DocumentationStage] = "running"
    /\ lastTool = <<DocumentationStage, "file_write_tool">>
    /\ readme = "file"

\* max_iter of the worker of stage i of main.py.
Cap(i) == max_iter[task_agent("main")[tasks("main")[i]]]

\* The run is over: every stage completed, or one failed and none after it
\* was started.
Terminal ==
    /\ pc = "exited"
    /\ \/ AllCompleted
       \/ \E k \in 1..NTasks(script) :
              /\ status[k] = "failed"
              /\ \A j \in 1..(k - 1) : status[j] = "completed"
              /\ \A j \in (k + 1)..NTasks(script) : status[j] = "pending"

\* The stage that made the latest tool invocation did at most Cap rounds.
BoundedRounds ==
    /\ iter >= 0
    /\ (script = "main" /\ lastTool # <<>> /\ iter > 0) => iter <= Cap(lastTool[1])
    /\ script # "main" => iter = 0

====
